---- MODULE Spec2Model ----
(***************************************************************************)
(* Model of app/logging_driver.py: the CentralizedLogging singleton, its   *)
(* configure / setup_default_config / add_custom_handler / get_config /    *)
(* reset operations, and the module-level logging functions, together with *)
(* the state of the root logger they act on through logging.basicConfig.   *)
(*                                                                         *)
(* Python values are wrapped in records of one shape so that a dict can    *)
(* hold None, numbers, strings, booleans and handler lists side by side.   *)
(* A dict is a function whose DOMAIN is the set of keys present: key       *)
(* presence ("k in kwargs") and a None value are different things, as in   *)
(* Python.                                                                 *)
(***************************************************************************)
EXTENDS Integers, Sequences, FiniteSets, TLC

VARIABLES
    configured,       \* CentralizedLogging._configured
    custom_handlers,  \* CentralizedLogging.custom_handlers
    default_config,   \* CentralizedLogging.default_config
    rootHandlers,     \* logging.root.handlers
    rootLevel,        \* logging.root.level
    last,             \* the most recent call: operation, arguments, outcome, state before it
    prior             \* the call before that

vars == <<configured, custom_handlers, default_config, rootHandlers, rootLevel, last, prior>>

----------------------------------------------------------------------------
(* Bounds *)

\* longest custom_handlers list explored
MaxCustom == 2

----------------------------------------------------------------------------
(* Python values *)

None == [t |-> "none", i |-> 0, s |-> "", l |-> <<>>]

IntV(n) == [t |-> "int", i |-> n, s |-> "", l |-> <<>>]

StrV(x) == [t |-> "str", i |-> 0, s |-> x, l |-> <<>>]

BoolV(b) == [t |-> "bool", i |-> IF b THEN 1 ELSE 0, s |-> "", l |-> <<>>]

ListV(q) == [t |-> "list", i |-> 0, s |-> "", l |-> q]

\* Python truth value of a wrapped value
Truthy(v) ==
    CASE v.t = "none" -> FALSE
      [] v.t = "int"  -> v.i # 0
      [] v.t = "bool" -> v.i # 0
      [] v.t = "str"  -> v.s # ""
      [] v.t = "list" -> v.l # <<>>

EmptyDict == [k \in {} |-> None]

\* dict.get(k, dflt) and kwargs.pop(k, dflt)
Get(d, k, dflt) == IF k \in DOMAIN d THEN d[k] ELSE dflt

\* d.copy() followed by .update(kw): every key of kw overrides, the others stay
Update(d, kw) ==
    [k \in (DOMAIN d) \cup (DOMAIN kw) |-> IF k \in DOMAIN kw THEN kw[k] ELSE d[k]]

----------------------------------------------------------------------------
(* The logging module's names *)

FMT_DEFAULT == "%(asctime)s - %(name)s - %(levelname)s - %(message)s"

DATEFMT_DEFAULT == "%Y-%m-%d %H:%M:%S"

BASIC_FORMAT == "%(levelname)s:%(name)s:%(message)s"

LowerChars == <<"a","b","c","d","e","f","g","i","l","m","n","o","r","s","t","u","w">>

UpperChars == <<"A","B","C","D","E","F","G","I","L","M","N","O","R","S","T","U","W">>

\* str.upper() on one character
UpperChar(c) ==
    IF \E j \in 1..Len(LowerChars) : LowerChars[j] = c
    THEN UpperChars[CHOOSE j \in 1..Len(LowerChars) : LowerChars[j] = c]
    ELSE c

\* str.upper(); a string is its sequence of characters
Upper(name) == [j \in 1..Len(name) |-> UpperChar(name[j])]

\* getattr(logging, NAME, dflt): the upper-case attributes of the logging module
LoggingAttr(NAME, dflt) ==
    CASE NAME = <<"D","E","B","U","G">>                 -> IntV(10)
      [] NAME = <<"I","N","F","O">>                     -> IntV(20)
      [] NAME = <<"W","A","R","N","I","N","G">>         -> IntV(30)
      [] NAME = <<"W","A","R","N">>                     -> IntV(30)
      [] NAME = <<"E","R","R","O","R">>                 -> IntV(40)
      [] NAME = <<"C","R","I","T","I","C","A","L">>     -> IntV(50)
      [] NAME = <<"F","A","T","A","L">>                 -> IntV(50)
      [] NAME = <<"N","O","T","S","E","T">>             -> IntV(0)
      [] NAME = <<"B","A","S","I","C","_","F","O","R","M","A","T">> -> StrV(BASIC_FORMAT)
      [] OTHER -> dflt

INFO == LoggingAttr(<<"I","N","F","O">>, None)

\* logging._checkLevel as reached through Handler.setLevel / Logger.setLevel:
\* an int is accepted, a str must be a registered level name
LevelOk(v) == v.t = "int"

----------------------------------------------------------------------------
(* Handlers (sinks).  id is the object's identity; fmt = "" is "no formatter". *)

Handler(kind, id, level, fmt, datefmt) ==
    [kind |-> kind, id |-> id, level |-> level, fmt |-> fmt, datefmt |-> datefmt]

\* a handler object built by the caller: NOTSET threshold, no formatter
CallerHandler(id) == Handler("custom", id, 0, "", "")

CallerHandlerIds == {"h1", "h2"}

Ids(hs) == [j \in 1..Len(hs) |-> hs[j].id]

\* Logger.addHandler: appended unless the same object is already attached
AddHandler(hs, h) ==
    IF \E j \in 1..Len(hs) : hs[j].id = h.id THEN hs ELSE Append(hs, h)

RECURSIVE AddAll(_, _, _, _)
\* the loop of basicConfig: setFormatter on handlers without one, then addHandler
AddAll(hs, new, fs, dfs) ==
    IF new = <<>> THEN hs
    ELSE LET h == Head(new)
             hf == IF h.fmt = "" THEN [h EXCEPT !.fmt = fs, !.datefmt = dfs] ELSE h
         IN AddAll(AddHandler(hs, hf), Tail(new), fs, dfs)

----------------------------------------------------------------------------
(* logging.basicConfig called with the dict kw on the root logger (hs, lvl) *)
(* Result: the root handlers and level afterwards and the exception raised *)

BasicConfig(kw, hs, lvl) ==
    LET force == Get(kw, "force", BoolV(FALSE))
        \* if force: every handler is removed from the root and closed
        h0 == IF Truthy(force) THEN <<>> ELSE hs
    IN  IF Len(h0) # 0
        THEN [handlers |-> h0, level |-> lvl, raised |-> "none"]
        ELSE
        LET handlers == Get(kw, "handlers", None)
        IN  IF handlers = None /\ "stream" \in DOMAIN kw /\ "filename" \in DOMAIN kw
            THEN [handlers |-> h0, level |-> lvl, raised |-> "ValueError"]
            ELSE IF handlers # None /\ ("stream" \in DOMAIN kw \/ "filename" \in DOMAIN kw)
            THEN [handlers |-> h0, level |-> lvl, raised |-> "ValueError"]
            ELSE
            LET filename == Get(kw, "filename", None)
                dfs == Get(kw, "datefmt", None)
                fs == Get(kw, "format", StrV(BASIC_FORMAT))
                new == IF handlers # None THEN handlers.l
                       ELSE IF Truthy(filename)
                       THEN <<Handler("FileHandler", filename.s, 0, "", "")>>
                       ELSE <<Handler("StreamHandler", "stderr", 0, "", "")>>
                h1 == AddAll(h0, new, fs.s, dfs.s)
                level == Get(kw, "level", None)
                popped == {"force", "encoding", "errors", "handlers", "datefmt",
                           "style", "format", "level"}
                          \cup (IF handlers = None THEN {"filename", "filemode"} ELSE {})
                          \cup (IF handlers = None /\ ~Truthy(filename) THEN {"stream"} ELSE {})
            IN  IF level # None /\ ~LevelOk(level)
                THEN [handlers |-> h1, level |-> lvl, raised |-> "ValueError"]
                ELSE LET l1 == IF level # None THEN level.i ELSE lvl
                     IN IF (DOMAIN kw) \ popped # {}
                        THEN [handlers |-> h1, level |-> l1, raised |-> "ValueError"]
                        ELSE [handlers |-> h1, level |-> l1, raised |-> "none"]

----------------------------------------------------------------------------
(* CentralizedLogging *)

\* __init__: the default template
DefaultConfig ==
    [k \in {"level", "format", "datefmt", "filename", "filemode", "stream",
            "handlers", "force", "encoding", "errors"} |->
        CASE k = "level"    -> INFO
          [] k = "format"   -> StrV(FMT_DEFAULT)
          [] k = "datefmt"  -> StrV(DATEFMT_DEFAULT)
          [] k = "filename" -> None
          [] k = "filemode" -> StrV("a")
          [] k = "stream"   -> None
          [] k = "handlers" -> None
          [] k = "force"    -> BoolV(FALSE)
          [] k = "encoding" -> StrV("utf-8")
          [] k = "errors"   -> None]

\* _create_handlers(config).  fsok: the directory can be made and the file opened.
\* Result: the handler list, or the exception raised on the way.
CreateHandlers(config, fsok) ==
    LET console == ~Truthy(Get(config, "disable_console", BoolV(FALSE)))
        file == Truthy(Get(config, "filename", None))
        fmt == Get(config, "format", default_config["format"]).s
        dfs == Get(config, "datefmt", default_config["datefmt"]).s
        level == config["level"]
    IN  IF console /\ ~LevelOk(level)
        THEN [raised |-> "ValueError", handlers |-> <<>>]
        ELSE IF file /\ ~fsok
        THEN [raised |-> "OSError", handlers |-> <<>>]
        ELSE IF file /\ ~LevelOk(level)
        THEN [raised |-> "ValueError", handlers |-> <<>>]
        ELSE [raised |-> "none",
              handlers |->
                  (IF console
                   THEN <<Handler("StreamHandler", "stdout", level.i, fmt, dfs)>>
                   ELSE <<>>)
                  \o (IF file
                      THEN <<Handler("RotatingFileHandler", config["filename"].s,
                                     level.i, fmt, dfs)>>
                      ELSE <<>>)
                  \o custom_handlers]

\* the gate of configure: already configured and force not set
Skipped(kw) == configured /\ ~Truthy(Get(kw, "force", BoolV(FALSE)))

\* the dict configure hands to basicConfig, and the exception raised building it
MergedConfig(kw, fsok) ==
    LET config == Update(default_config, kw)
    IN  IF "handlers" \in DOMAIN kw
        THEN [raised |-> "none", config |-> config]
        ELSE IF Truthy(Get(config, "filename", None)) \/ custom_handlers # <<>>
        THEN LET made == CreateHandlers(config, fsok)
             IN [raised |-> made.raised,
                 config |-> Update(config, "handlers" :> ListV(made.handlers))]
        ELSE [raised |-> "none", config |-> config]

\* configure(**kw): how the call ends and the state it leaves
ConfigureResult(kw, fsok) ==
    IF Skipped(kw)
    THEN [outcome |-> "skipped", handlers |-> rootHandlers, level |-> rootLevel,
          configured |-> configured]
    ELSE LET m == MergedConfig(kw, fsok)
         IN  IF m.raised # "none"
             THEN [outcome |-> m.raised, handlers |-> rootHandlers, level |-> rootLevel,
                   configured |-> configured]
             ELSE LET bc == BasicConfig(m.config, rootHandlers, rootLevel)
                  IN IF bc.raised # "none"
                     THEN [outcome |-> bc.raised, handlers |-> bc.handlers,
                           level |-> bc.level, configured |-> configured]
                     ELSE [outcome |-> "returned", handlers |-> bc.handlers,
                           level |-> bc.level, configured |-> TRUE]

\* the options setup_default_config builds from its parameters
SetupOptions(levelName, log_to_file, log_to_console) ==
    ("level" :> LoggingAttr(Upper(levelName), INFO))
    @@ ("format" :> StrV(FMT_DEFAULT))
    @@ ("datefmt" :> StrV(DATEFMT_DEFAULT))
    @@ ("force" :> BoolV(TRUE))
    @@ (IF log_to_file
        THEN ("filename" :> StrV("logs/application.log"))
             @@ ("max_bytes" :> IntV(10 * 1024 * 1024))
             @@ ("backup_count" :> IntV(5))
        ELSE EmptyDict)
    @@ (IF ~log_to_console THEN ("disable_console" :> BoolV(TRUE)) ELSE EmptyDict)

\* get_config()
get_config ==
    [level |-> rootLevel, handlers_count |-> Len(rootHandlers), configured |-> configured]

----------------------------------------------------------------------------
(* The calls explored *)

NoName == <<>>

Call(op, kw, levelName, outcome) ==
    [op |-> op, kw |-> kw, levelName |-> levelName, outcome |-> outcome,
     preConfigured |-> configured, preHandlers |-> rootHandlers,
     preLevel |-> rootLevel, preCustom |-> custom_handlers]

\* what is kept of the call before the last one
Brief(c) ==
    [op |-> c.op, outcome |-> c.outcome, preConfigured |-> c.preConfigured,
     force |-> Truthy(Get(c.kw, "force", BoolV(FALSE))),
     level |-> Update(DefaultConfig, c.kw)["level"]]

Opt(k, vals) == {EmptyDict} \cup {k :> v : v \in vals}

\* keyword arguments given to configure
ConfigureInputs ==
    {a @@ b @@ c @@ d @@ e :
        a \in Opt("level", {IntV(10)}),
        b \in Opt("filename", {StrV("logs/iot_system.log")}),
        c \in Opt("disable_console", {BoolV(TRUE)}),
        d \in Opt("handlers", {ListV(<<CallerHandler("h1")>>)}),
        e \in Opt("force", {BoolV(TRUE)})}

\* level names given to setup_default_config
LevelNames ==
    { <<"D","E","B","U","G">>, <<"e","r","r","o","r">>, <<"b","o","g","u","s">>,
      <<"w","a","r","n">>, <<"b","a","s","i","c","_","f","o","r","m","a","t">> }

----------------------------------------------------------------------------
(* Actions *)

Init ==
    /\ configured = FALSE
    /\ custom_handlers = <<>>
    /\ default_config = DefaultConfig
    /\ rootHandlers = <<>>
    /\ rootLevel = 30      \* the root logger starts at WARNING
    /\ last = [op |-> "init", kw |-> EmptyDict, levelName |-> NoName, outcome |-> "returned",
               preConfigured |-> FALSE, preHandlers |-> <<>>, preLevel |-> 30,
               preCustom |-> <<>>]
    /\ prior = [op |-> "init", outcome |-> "returned", preConfigured |-> FALSE,
                force |-> FALSE, level |-> INFO]

Configure ==
    \E kw \in ConfigureInputs :
      \E fsok \in (IF "filename" \in DOMAIN kw THEN BOOLEAN ELSE {TRUE}) :
        LET r == ConfigureResult(kw, fsok)
        IN  /\ configured' = r.configured
            /\ rootHandlers' = r.handlers
            /\ rootLevel' = r.level
            /\ last' = Call("configure", kw, NoName, r.outcome)
            /\ prior' = Brief(last)
            /\ UNCHANGED <<custom_handlers, default_config>>

SetupDefaultConfig ==
    \E levelName \in LevelNames, log_to_file \in BOOLEAN, log_to_console \in BOOLEAN :
      \E fsok \in (IF log_to_file THEN BOOLEAN ELSE {TRUE}) :
        LET kw == SetupOptions(levelName, log_to_file, log_to_console)
            \* Path(log_dir).mkdir comes before the call of configure
            r == IF log_to_file /\ ~fsok
                 THEN [outcome |-> "OSError", handlers |-> rootHandlers,
                       level |-> rootLevel, configured |-> configured]
                 ELSE ConfigureResult(kw, fsok)
        IN  /\ configured' = r.configured
            /\ rootHandlers' = r.handlers
            /\ rootLevel' = r.level
            /\ last' = Call("setup_default_config", kw, levelName, r.outcome)
            /\ prior' = Brief(last)
            /\ UNCHANGED <<custom_handlers, default_config>>

AddCustomHandler ==
    \E id \in CallerHandlerIds :
        /\ Len(custom_handlers) < MaxCustom
        /\ custom_handlers' = Append(custom_handlers, CallerHandler(id))
        /\ last' = Call("add_custom_handler", EmptyDict, NoName, "returned")
        /\ prior' = Brief(last)
        /\ UNCHANGED <<configured, default_config, rootHandlers, rootLevel>>

\* reset that forgets to empty custom_handlers
Reset_KeepsCustomHandlers ==
    /\ rootHandlers' = <<>>
    /\ configured' = FALSE
    /\ last' = Call("reset", EmptyDict, NoName, "returned")
    /\ prior' = Brief(last)
    /\ UNCHANGED <<custom_handlers, default_config, rootLevel>>

Reset ==
    /\ rootHandlers' = <<>>
    /\ configured' = FALSE
    /\ custom_handlers' = <<>>
    /\ last' = Call("reset", EmptyDict, NoName, "returned")
    /\ prior' = Brief(last)
    /\ UNCHANGED <<default_config, rootLevel>>

\* the module-level debug/info/warning/error/critical/exception: logging's functions
\* of the same names call basicConfig() first when the root logger has no handler
LogDirect ==
    LET bc == IF Len(rootHandlers) = 0
              THEN BasicConfig(EmptyDict, rootHandlers, rootLevel)
              ELSE [handlers |-> rootHandlers, level |-> rootLevel, raised |-> "none"]
    IN  /\ rootHandlers' = bc.handlers
        /\ rootLevel' = bc.level
        /\ last' = Call("log", EmptyDict, NoName, "returned")
        /\ prior' = Brief(last)
        /\ UNCHANGED <<configured, custom_handlers, default_config>>

Next ==
    \/ Configure
    \/ SetupDefaultConfig
    \/ AddCustomHandler
    \/ Reset
    \/ LogDirect

Spec == Init /\ [][Next]_vars

----------------------------------------------------------------------------
(* Vocabulary of the properties: all about the call recorded in last *)

IsConfigure == last.op = "configure"

IsSetup == last.op = "setup_default_config"

\* the call went through configure and was neither gated nor stopped by the file system
Attempted == (IsConfigure \/ IsSetup) /\ last.outcome \notin {"skipped", "OSError"}

\* the stored default template overridden by the fields present in the call
Effective == Update(default_config, last.kw)

ExplicitGiven == "handlers" \in DOMAIN last.kw

Derives == ~ExplicitGiven /\ (Truthy(Effective["filename"]) \/ last.preCustom # <<>>)

\* identities of the sinks the effective configuration calls for
ExpectedIds ==
    IF ExplicitGiven THEN Ids(last.kw["handlers"].l)
    ELSE (IF Truthy(Get(Effective, "disable_console", BoolV(FALSE))) THEN <<>> ELSE <<"stdout">>)
         \o (IF Truthy(Effective["filename"]) THEN <<Effective["filename"].s>> ELSE <<>>)
         \o Ids(last.preCustom)

UnchangedActive == rootHandlers = last.preHandlers /\ rootLevel = last.preLevel

FullyInstalled ==
    /\ rootLevel = Effective["level"].i
    /\ (ExplicitGiven \/ Derives) => Ids(rootHandlers) = ExpectedIds

NoDuplicates(q) == \A j, k \in 1..Len(q) : q[j] = q[k] => j = k

RecognizedNames ==
    { <<"D","E","B","U","G">>, <<"I","N","F","O">>, <<"W","A","R","N","I","N","G">>,
      <<"E","R","R","O","R">>, <<"C","R","I","T","I","C","A","L">> }

----------------------------------------------------------------------------
(* Properties *)

\* C1: two configure calls in a row without force, the first on an unconfigured
\* manager: afterwards configured is true, the second call was skipped and changed
\* nothing, and the active level is the first call's effective level.
C1_SecondCallIsNoOp ==
    (/\ IsConfigure
     /\ prior.op = "configure"
     /\ ~prior.preConfigured
     /\ ~prior.force
     /\ ~Truthy(Get(last.kw, "force", BoolV(FALSE)))
     /\ prior.outcome # "OSError"
     /\ last.outcome # "OSError")
    => /\ configured
       /\ prior.outcome = "returned"
       /\ last.outcome = "skipped"
       /\ rootLevel = prior.level.i
       /\ UnchangedActive
       /\ custom_handlers = last.preCustom

\* C2: a configure call that is not skipped returns with configured = true and the
\* root level equal to the level of the default template overridden by the call's
\* fields; the default template is never changed.
C2_AppliesEffectiveLevel ==
    /\ default_config = DefaultConfig
    /\ Attempted =>
          /\ last.outcome = "returned"
          /\ configured
          /\ rootLevel = Effective["level"].i

\* C3: a configure call that is not skipped and supplies handlers installs exactly
\* that sequence on the root logger and completes with configured = true.
C3_ExplicitHandlersVerbatim ==
    (IsConfigure /\ last.outcome # "skipped" /\ ExplicitGiven)
    => /\ last.outcome = "returned"
       /\ configured
       /\ Ids(rootHandlers) = Ids(last.kw["handlers"].l)

\* C4: custom_handlers never holds a handler twice, and a configure call that is
\* not skipped and has no explicit handlers installs every registered handler
\* once, after the console and file sinks, in registration order.
C4_CustomHandlersOnceInOrder ==
    /\ NoDuplicates(custom_handlers)
    /\ (Attempted /\ ~ExplicitGiven /\ last.preCustom # <<>>)
       => /\ last.outcome = "returned"
          /\ Ids(rootHandlers) = ExpectedIds
          /\ NoDuplicates(Ids(rootHandlers))

\* C5: after reset, get_config reports configured = false and no sinks, and
\* custom_handlers is empty; a reset right after a reset changes nothing. reset
\* never raises.
C5_ResetClears ==
    /\ last.op = "reset" =>
          /\ last.outcome = "returned"
          /\ get_config.configured = FALSE
          /\ get_config.handlers_count = 0
          /\ custom_handlers = <<>>
    /\ (last.op = "reset" /\ prior.op = "reset") =>
          /\ UnchangedActive
          /\ configured = last.preConfigured
          /\ custom_handlers = last.preCustom

\* reset has acted on a configured manager with sinks attached and handlers registered
C5_Witness ==
    /\ last.op = "reset"
    /\ last.preConfigured
    /\ last.preHandlers # <<>>
    /\ last.preCustom # <<>>

\* C6: setup_default_config completes whatever the level name, and the root
\* threshold is the named level for the five recognized names in any letter case
\* and INFO for every other name.
C6_LevelNameNeverFails ==
    (IsSetup /\ last.outcome # "OSError")
    => /\ last.outcome = "returned"
       /\ rootLevel = (IF Upper(last.levelName) \in RecognizedNames
                       THEN LoggingAttr(Upper(last.levelName), INFO).i
                       ELSE INFO.i)

\* C7: setup_default_config is never skipped; when it returns, configured is true
\* and the active level and sinks are the ones derived from its own parameters.
C7_SetupAlwaysReconfigures ==
    (IsSetup /\ last.outcome # "OSError")
    => /\ last.outcome # "skipped"
       /\ last.outcome = "returned"
       /\ configured
       /\ FullyInstalled
       /\ ~Derives => Len(rootHandlers) <= 1

\* C8: every configure call, failing ones included, ends with the previous level
\* and sinks fully in place or with the complete effective configuration
\* installed; configured becomes true only by a call that applied it.
C8_ReplacesAtomically ==
    (IsConfigure \/ IsSetup)
    => /\ UnchangedActive \/ FullyInstalled
       /\ (configured /\ ~last.preConfigured) => last.outcome = "returned"

\* C10: after a configure call that is not skipped, has no explicit handlers and
\* has disable_console set, the call has completed and the root logger has no
\* console/stream sink.
C10_NoConsoleWhenDisabled ==
    (Attempted /\ ~ExplicitGiven /\ Truthy(Get(Effective, "disable_console", BoolV(FALSE))))
    => /\ last.outcome = "returned"
       /\ \A j \in 1..Len(rootHandlers) : rootHandlers[j].kind # "StreamHandler"

====
